---- MODULE Spec2Model ----
(***************************************************************************)
(* Price Tracker Pro (facoriolano/Shopping): the App component of          *)
(* src/unnamed/part_000 as a state machine.  The state is the component's  *)
(* React state; every click handler and every continuation that runs when  *)
(* an AI resolver call settles is one action.  A handler reads the state   *)
(* of the render that created it, so an asynchronous handler keeps the     *)
(* `products` (and `editingState`) it captured when it was clicked.        *)
(*                                                                         *)
(* Strings whose characters the code inspects (prices) are sequences of    *)
(* one-character strings; the other strings are TLA+ strings.  A Date is   *)
(* its getTime() value in milliseconds (toISOString keeps milliseconds, so *)
(* new Date(iso).getTime() gives back the same number).                    *)
(***************************************************************************)
EXTENDS Integers, Sequences, FiniteSets, TLC

VARIABLES
    products,              \* useState<Product[]>
    stored,                \* localStorage['priceTrackerProducts']
    productUrl,            \* the add form's URL input
    globalAffiliateIds,    \* the two global affiliate inputs
    isLoading,             \* an add is in flight
    isUpdatingAll,         \* a refresh-all is in flight
    updatingProductIndex,  \* index of the card being re-resolved, or NoIndex
    error,                 \* <<>> (null) or <<prefix, detail>>
    filter,                \* 'all' | 'onSale24h'
    sort,                  \* 'default' | 'priceAsc' | 'priceDesc'
    editingState,          \* <<>> (null) or <<[product, index, newUrl, newAffiliateIds]>>
    isSavingEdit,
    now,                   \* Date.now()
    addCall,               \* <<>> or <<[url]>>: the pending call of handleAddProduct
    refreshCall,           \* <<>> or <<[products, results]>>: the pending handleUpdateAllProducts
    editCall,              \* <<>> or <<[products, index, newUrl, newAffiliateIds]>>: the pending handleSaveEdit
    calls,                 \* number of resolver calls issued so far
    theme,                 \* 'light' | 'dark'
    storedTheme,           \* localStorage['theme'], Null when there is none
    lifecycle,             \* 'unmounted' | 'mounted' | 'raised': the App on the screen
    storage                \* [reads, writes]: whether getItem and setItem succeed now

vars == <<products, stored, productUrl, globalAffiliateIds, isLoading, isUpdatingAll,
          updatingProductIndex, error, filter, sort, editingState, isSavingEdit, now,
          addCall, refreshCall, editCall, calls, theme, storedTheme, lifecycle, storage>>

(***************************************************************************)
(* Bounds of the model.                                                    *)
(***************************************************************************)
MaxProducts == 2      \* products the add form may pile up
MaxCalls == 2         \* resolver calls issued in one behaviour
MaxTicks == 1         \* clock steps in one behaviour
TickMs == 50000000    \* milliseconds the clock advances in one step

(***************************************************************************)
(* JavaScript values.                                                      *)
(***************************************************************************)
\* null / undefined where a TLA+ string is expected
Null == "null"
\* null / undefined where a character sequence is expected
NullChars == <<"null">>
\* updatingProductIndex === null (indices are 0-based in the source, 1-based here)
NoIndex == 0
\* a hole of a sparse array (reads as undefined)
Hole == [hole |-> TRUE]

NA == <<"N", "/", "A">>
NAUrl == "N/A"

Last(s) == s[Len(s)]

Range(s) == {s[i] : i \in 1..Len(s)}

(***************************************************************************)
(* String.prototype.replace / trim and parseFloat on character sequences.  *)
(***************************************************************************)
Digits == <<"0", "1", "2", "3", "4", "5", "6", "7", "8", "9">>

IsDigit(c) == \E i \in 1..10 : Digits[i] = c

DigitVal(c) == (CHOOSE i \in 1..10 : Digits[i] = c) - 1

WhiteSpace == {" ", "\t", "\n"}

Drop(s, n) == SubSeq(s, n + 1, Len(s))

StartsWith(s, pat) == Len(s) >= Len(pat) /\ SubSeq(s, 1, Len(pat)) = pat

\* s.replace(pat, rep) with a string pattern: the first occurrence only
RECURSIVE ReplaceFirst(_, _, _)
ReplaceFirst(s, pat, rep) ==
    IF Len(s) < Len(pat) THEN s
    ELSE IF StartsWith(s, pat) THEN rep \o Drop(s, Len(pat))
    ELSE <<s[1]>> \o ReplaceFirst(Drop(s, 1), pat, rep)

\* s.replace(/c/g, ''): every occurrence of one character
RemoveAll(s, c) == SelectSeq(s, LAMBDA x : x # c)

RECURSIVE TrimLeft(_)
TrimLeft(s) == IF s # <<>> /\ s[1] \in WhiteSpace THEN TrimLeft(Drop(s, 1)) ELSE s

RECURSIVE TrimRight(_)
TrimRight(s) ==
    IF s # <<>> /\ Last(s) \in WhiteSpace THEN TrimRight(SubSeq(s, 1, Len(s) - 1)) ELSE s

Trim(s) == TrimRight(TrimLeft(s))

\* Numbers: NaN, +Infinity, or the decimal m * 10^x (m, x integers)
NaN == [kind |-> "nan", m |-> 0, x |-> 0]
Infinity == [kind |-> "inf", m |-> 0, x |-> 0]
Num(m, x) == [kind |-> "num", m |-> m, x |-> x]

RECURSIVE Pow10(_)
Pow10(n) == IF n <= 0 THEN 1 ELSE 10 * Pow10(n - 1)

\* the longest run of digits at the start of s
RECURSIVE DigitRun(_)
DigitRun(s) == IF s # <<>> /\ IsDigit(s[1]) THEN <<s[1]>> \o DigitRun(Drop(s, 1)) ELSE <<>>

RECURSIVE DigitsValue(_)
DigitsValue(ds) ==
    IF ds = <<>> THEN 0 ELSE 10 * DigitsValue(SubSeq(ds, 1, Len(ds) - 1)) + DigitVal(Last(ds))

\* the exponent part e[+-]ddd at the start of s, 0 when there is none
ExponentOf(s) ==
    IF s = <<>> \/ s[1] \notin {"e", "E"} THEN 0
    ELSE LET r == Drop(s, 1)
             signed == r # <<>> /\ r[1] \in {"+", "-"}
             ds == DigitRun(IF signed THEN Drop(r, 1) ELSE r)
         IN  IF ds = <<>> THEN 0
             ELSE IF signed /\ r[1] = "-" THEN 0 - DigitsValue(ds) ELSE DigitsValue(ds)

\* parseFloat: leading white space, sign, the longest decimal literal; NaN when
\* there is none.  (Binary rounding is left out: decimals are kept exact.)
ParseFloat(s) ==
    LET t == TrimLeft(s)
        signed == t # <<>> /\ t[1] \in {"+", "-"}
        neg == signed /\ t[1] = "-"
        u == IF signed THEN Drop(t, 1) ELSE t
        ip == DigitRun(u)
        afterInt == Drop(u, Len(ip))
        hasDot == afterInt # <<>> /\ afterInt[1] = "."
        fp == IF hasDot THEN DigitRun(Drop(afterInt, 1)) ELSE <<>>
        rest == IF hasDot THEN Drop(afterInt, 1 + Len(fp)) ELSE afterInt
        mant == DigitsValue(ip \o fp)
    IN  IF StartsWith(u, <<"I", "n", "f", "i", "n", "i", "t", "y">>)
        THEN (IF neg THEN [kind |-> "-inf", m |-> 0, x |-> 0] ELSE Infinity)
        ELSE IF ip = <<>> /\ fp = <<>> THEN NaN
        ELSE Num(IF neg THEN 0 - mant ELSE mant, ExponentOf(rest) - Len(fp))

\* a < b on numbers (false as soon as one side is NaN)
NumLess(a, b) ==
    CASE a.kind = "nan" \/ b.kind = "nan" -> FALSE
      [] a.kind = "inf" -> FALSE
      [] b.kind = "-inf" -> FALSE
      [] a.kind = "-inf" -> TRUE
      [] b.kind = "inf" -> TRUE
      [] OTHER -> LET lo == IF a.x < b.x THEN a.x ELSE b.x
                  IN  a.m * Pow10(a.x - lo) < b.m * Pow10(b.x - lo)

\* a === b on numbers (NaN equals nothing; 1.5 and 1.50 are the same number)
NumEq(a, b) ==
    CASE a.kind = "nan" \/ b.kind = "nan" -> FALSE
      [] a.kind # "num" \/ b.kind # "num" -> a.kind = b.kind
      [] OTHER -> LET lo == IF a.x < b.x THEN a.x ELSE b.x
                  IN  a.m * Pow10(a.x - lo) = b.m * Pow10(b.x - lo)

\* !priceStr: null, undefined and the empty string are falsy
Falsy(priceStr) == priceStr = NullChars \/ priceStr = <<>>

parsePrice(priceStr) ==
    IF Falsy(priceStr) \/ priceStr = NA THEN Infinity
    ELSE ParseFloat(Trim(ReplaceFirst(RemoveAll(ReplaceFirst(priceStr, <<"R", "$">>, <<>>), "."),
                                      <<",">>, <<".">>)))

(***************************************************************************)
(* The data model (interfaces PriceHistoryEntry, ProductStore, Product).   *)
(***************************************************************************)
PriceHistoryEntry(date, price) == [date |-> date, price |-> price]

ProductStore(name, url, currentPrice, priceHistory) ==
    [name |-> name, url |-> url, currentPrice |-> currentPrice, priceHistory |-> priceHistory]

Product(productName, imageUrl, stores, originalUrl, affiliateIds) ==
    [productName |-> productName, imageUrl |-> imageUrl, stores |-> stores,
     originalUrl |-> originalUrl, affiliateIds |-> affiliateIds]

\* a product saved without affiliateIds
NoAffiliateIds == [amazon |-> Null, mercadoLivre |-> Null]

DefaultAffiliateIds == [amazon |-> "facoriolano-20", mercadoLivre |-> "fabriciocoriolano"]

\* stores.find(s => s.name === name): <<>> when there is none
FindStore(stores, name) ==
    LET hits == {i \in 1..Len(stores) : stores[i].name = name}
    IN  IF hits = {} THEN <<>> ELSE <<stores[CHOOSE i \in hits : \A j \in hits : i <= j]>>

(***************************************************************************)
(* The inputs of the model: what the user types and what the AI resolver   *)
(* answers.                                                                *)
(***************************************************************************)
P100 == <<"R", "$", " ", "1", "0", "0", ",", "0", "0">>
P80 == <<"R", "$", " ", "8", "0", ",", "0", "0">>
\* a price field whose text is no price
PText == <<"G", "r", "a", "t", "i", "s">>

\* values typed into the add form's URL field
UrlInputs == {" ", "https://a.example/p1"}

\* values typed into the URL field of the edit modal
NewUrlInputs == {"https://a.example/p1"}

\* String.prototype.trim on the typed URLs
TrimUrl(u) == IF u = " " THEN "" ELSE u

\* values typed into an affiliate-id field
AffiliateInputs == {[field |-> "amazon", value |-> ""]}

\* the JSON object of an answer; Null / NullChars / <<>> stand for a missing field
Payload(err, productName, imageUrl, amazon, mercadoLivre) ==
    [error |-> err, productName |-> productName, imageUrl |-> imageUrl,
     amazon |-> amazon, mercadoLivre |-> mercadoLivre]

Listing(price, url) == <<[price |-> price, url |-> url]>>

NoPayload == Payload(Null, Null, Null, <<>>, <<>>)

\* an answer of ai.models.generateContent: the call rejects, or it returns a
\* text with no {...} region, with one that JSON.parse refuses, or with a JSON object
Answer(kind, json, data) == [kind |-> kind, json |-> json, data |-> data]

FailedAnswers ==
    { Answer("reject", "none", NoPayload),
      Answer("text", "none", NoPayload),
      Answer("text", "invalid", NoPayload),
      Answer("text", "object", Payload("quota", "Fone", "img", Listing(P100, "https://amazon/x"), <<>>)),
      Answer("text", "object", NoPayload) }

GoodAnswers ==
    { Answer("text", "object",
             Payload(Null, "Fone", "img", Listing(P100, "https://amazon/x"), <<>>)),
      Answer("text", "object",
             Payload(Null, "Fone", "img", Listing(P80, "https://amazon/x"), <<>>)),
      Answer("text", "object",
             Payload(Null, "Fone", "img", Listing(P80, "https://amazon/x"),
                     Listing(P80, "https://ml/x"))),
      Answer("text", "object",
             Payload(Null, Null, "img", Listing(NullChars, Null), Listing(P100, Null))) }

Answers == FailedAnswers \cup GoodAnswers

\* a || b on strings and on character sequences
OrElse(a, b) == IF a = Null \/ a = "" THEN b ELSE a
OrElseChars(a, b) == IF Falsy(a) THEN b ELSE a

\* data.amazon?.price || 'N/A' and data.amazon?.url || 'N/A'
ListingPrice(l) == IF l = <<>> THEN NA ELSE OrElseChars(l[1].price, NA)
ListingUrl(l) == IF l = <<>> THEN NAUrl ELSE OrElse(l[1].url, NAUrl)

Resolved(value) == [ok |-> TRUE, value |-> value, message |-> ""]
Thrown(message) == [ok |-> FALSE, value |-> Hole, message |-> message]

\* fetchProductData without the check of data.error
fetchProductDataNoErrorField(url, answer) ==
    LET data == answer.data IN
    IF answer.kind = "reject" THEN Thrown("generateContent rejected")
    ELSE IF answer.json # "object"
    THEN Thrown("A IA retornou uma resposta em formato invalido. Tente novamente.")
    ELSE IF OrElse(data.productName, Null) = Null /\ OrElse(data.imageUrl, Null) = Null
    THEN Thrown("Nao foi possivel extrair nenhuma informacao da URL fornecida.")
    ELSE Resolved([productName |-> OrElse(data.productName, "Nome nao encontrado"),
                   imageUrl |-> OrElse(data.imageUrl, NAUrl),
                   stores |-> << [name |-> "Amazon", price |-> ListingPrice(data.amazon),
                                  url |-> ListingUrl(data.amazon)],
                                 [name |-> "Mercado Livre", price |-> ListingPrice(data.mercadoLivre),
                                  url |-> ListingUrl(data.mercadoLivre)] >>,
                   originalUrl |-> url])

\* fetchProductData(url), given the answer its generateContent call gets
fetchProductData(url, answer) ==
    LET data == answer.data IN
    IF answer.kind = "reject" THEN Thrown("generateContent rejected")
    ELSE IF answer.json # "object"
    THEN Thrown("A IA retornou uma resposta em formato invalido. Tente novamente.")
    ELSE IF OrElse(data.error, Null) # Null
    THEN Thrown("A IA retornou um erro: " \o data.error)
    ELSE IF OrElse(data.productName, Null) = Null /\ OrElse(data.imageUrl, Null) = Null
    THEN Thrown("Nao foi possivel extrair nenhuma informacao da URL fornecida.")
    ELSE Resolved([productName |-> OrElse(data.productName, "Nome nao encontrado"),
                   imageUrl |-> OrElse(data.imageUrl, NAUrl),
                   stores |-> << [name |-> "Amazon", price |-> ListingPrice(data.amazon),
                                  url |-> ListingUrl(data.amazon)],
                                 [name |-> "Mercado Livre", price |-> ListingPrice(data.mercadoLivre),
                                  url |-> ListingUrl(data.mercadoLivre)] >>,
                   originalUrl |-> url])

(***************************************************************************)
(* Loading: the initializer of the products state, with its migration of   *)
(* older saved formats.  A saved store may lack any of price, currentPrice *)
(* and priceHistory (<<>>: no history saved, <<h>>: history h saved).      *)
(***************************************************************************)
SavedStore(name, url, hasPrice, price, currentPrice, priceHistory) ==
    [name |-> name, url |-> url, hasPrice |-> hasPrice, price |-> price,
     currentPrice |-> currentPrice, priceHistory |-> priceHistory]

\* the old format: stores carry `price`
migrateOldStore(s, date) ==
    ProductStore(s.name, s.url, s.price,
                 IF s.priceHistory # <<>> THEN s.priceHistory[1]
                 ELSE <<PriceHistoryEntry(date, s.price)>>)

\* "Ensure priceHistory is always an array"
ensurePriceHistory(s, date) ==
    ProductStore(s.name, s.url, s.currentPrice,
                 IF s.priceHistory # <<>> THEN s.priceHistory[1]
                 ELSE IF ~Falsy(s.currentPrice) THEN <<PriceHistoryEntry(date, s.currentPrice)>>
                 ELSE <<>>)

migrateProduct(p, date) ==
    IF Len(p.stores) > 0 /\ p.stores[1].hasPrice
    THEN [p EXCEPT !.stores = [i \in 1..Len(p.stores) |-> migrateOldStore(p.stores[i], date)]]
    ELSE [p EXCEPT !.stores = [i \in 1..Len(p.stores) |-> ensurePriceHistory(p.stores[i], date)]]

\* saved: what localStorage.getItem('priceTrackerProducts') holds
loadProducts(saved, date) ==
    IF saved.kind = "json" THEN [i \in 1..Len(saved.value) |-> migrateProduct(saved.value[i], date)] ELSE <<>>

\* a product saved by an intermediate version: no priceHistory yet
SavedIntermediate ==
    Product("Mouse", "img", << SavedStore("Amazon", Null, FALSE, NullChars, NullChars, <<>>),
                               SavedStore("Mercado Livre", "https://ml/m", FALSE, NullChars, P100, <<>>) >>,
            "https://b.example/p2", NoAffiliateIds)

\* two products saved by the current version
SavedCurrent ==
    << Product("Fone", "img",
               << SavedStore("Amazon", "https://amazon/x", FALSE, NullChars, P100,
                             <<(<<PriceHistoryEntry(0, P100)>>)>>),
                  SavedStore("Mercado Livre", NAUrl, FALSE, NullChars, NA,
                             <<(<<PriceHistoryEntry(0, NA)>>)>>) >>,
               "https://a.example/p1", DefaultAffiliateIds),
       Product("Mouse", "img",
               << SavedStore("Amazon", NAUrl, FALSE, NullChars, NA,
                             <<(<<PriceHistoryEntry(0, NA)>>)>>),
                  SavedStore("Mercado Livre", "https://ml/m", FALSE, NullChars, P100,
                             <<(<<PriceHistoryEntry(0, P100)>>)>>) >>,
               "https://b.example/p2", DefaultAffiliateIds) >>

SavedValues ==
    { [kind |-> "absent", value |-> <<>>],
      [kind |-> "invalid", value |-> <<>>],
      [kind |-> "json", value |-> <<SavedIntermediate>>],
      [kind |-> "json", value |-> SavedCurrent] }

(***************************************************************************)
(* Saving: the effect that runs after every render in which `products` is  *)
(* a new array.  JSON.stringify writes every store as the saved form that  *)
(* the initializer reads: currentPrice and priceHistory, no `price`.       *)
(***************************************************************************)
stringifyStore(s) == SavedStore(s.name, s.url, FALSE, NullChars, s.currentPrice, <<s.priceHistory>>)

stringifyProduct(p) ==
    [p EXCEPT !.stores = [k \in 1..Len(p.stores) |-> stringifyStore(p.stores[k])]]

\* JSON.stringify(products)
stringify(ps) == [kind |-> "json", value |-> [i \in 1..Len(ps) |-> stringifyProduct(ps[i])]]

\* localStorage as the program finds it: getItem and setItem return, or throw
\* (access denied, quota exceeded)
StorageWorks == [reads |-> TRUE, writes |-> TRUE]

\* useEffect(..., [products]) that never writes
persistProductsNever == stored' = stored

\* useEffect(() => localStorage.setItem('priceTrackerProducts', ...), [products]):
\* a render that throws (a hole in products) commits nothing, so its effect does not run
persistProducts ==
    stored' = IF (\E i \in 1..Len(products') : products'[i] = Hole) \/ ~storage.writes THEN stored
              ELSE stringify(products')

(***************************************************************************)
(* Derived views (displayedProducts, ProductCard).                         *)
(***************************************************************************)
TwentyFourHours == 24 * 60 * 60 * 1000

\* storeDropped24h with the window's edge excluded
storeDropped24hEdge(store) ==
    IF Len(store.priceHistory) < 2 THEN FALSE
    ELSE LET lastEntry == store.priceHistory[Len(store.priceHistory)]
             secondLastEntry == store.priceHistory[Len(store.priceHistory) - 1]
         IN  IF lastEntry.date <= now - TwentyFourHours THEN FALSE
             ELSE NumLess(parsePrice(lastEntry.price), parsePrice(secondLastEntry.price))

\* store => ... of hasPriceDropped24h
storeDropped24h(store) ==
    IF Len(store.priceHistory) < 2 THEN FALSE
    ELSE LET lastEntry == store.priceHistory[Len(store.priceHistory)]
             secondLastEntry == store.priceHistory[Len(store.priceHistory) - 1]
         IN  IF lastEntry.date < now - TwentyFourHours THEN FALSE
             ELSE NumLess(parsePrice(lastEntry.price), parsePrice(secondLastEntry.price))

hasPriceDropped24h(p) == \E i \in 1..Len(p.stores) : storeDropped24h(p.stores[i])

\* the filter step of displayedProducts
filtered ==
    IF filter = "onSale24h" THEN SelectSeq(products, hasPriceDropped24h) ELSE products

\* validStore without the checks of the URL
validStoreAnyUrl(s) == ~Falsy(s.currentPrice) /\ s.currentPrice # NA

\* s.currentPrice && s.url && s.currentPrice !== 'N/A' && s.url !== 'N/A'
validStore(s) ==
    /\ ~Falsy(s.currentPrice)
    /\ s.url # Null /\ s.url # ""
    /\ s.currentPrice # NA
    /\ s.url # NAUrl

\* validStores.reduce((best, current) => parsePrice(current) < parsePrice(best) ? current : best)
RECURSIVE reduceBest(_, _)
reduceBest(best, rest) ==
    IF rest = <<>> THEN best
    ELSE reduceBest(IF NumLess(parsePrice(rest[1].currentPrice), parsePrice(best.currentPrice))
                    THEN rest[1] ELSE best,
                    Drop(rest, 1))

\* bestOffer of a card: <<>> (null) or <<store>>
bestOffer(product) ==
    LET validStores == SelectSeq(product.stores, validStore)
    IN  IF Len(validStores) = 0 THEN <<>>
        ELSE <<reduceBest(validStores[1], Drop(validStores, 1))>>

\* a - b on numbers: NaN when a side is NaN or both are the same infinity
NumSub(a, b) ==
    CASE a.kind = "nan" \/ b.kind = "nan" -> NaN
      [] a.kind # "num" /\ a.kind = b.kind -> NaN
      [] a.kind # "num" -> a
      [] b.kind = "inf" -> [kind |-> "-inf", m |-> 0, x |-> 0]
      [] b.kind = "-inf" -> Infinity
      [] OTHER -> LET lo == IF a.x < b.x THEN a.x ELSE b.x
                  IN  Num(a.m * Pow10(a.x - lo) - b.m * Pow10(b.x - lo), lo)

\* PriceChangeIndicator of a card: <<>> (null) or <<change>>, the amount the
\* element shows; the arrow points down when change < 0
PriceChangeIndicator(history) ==
    IF Len(history) < 2 THEN <<>>
    ELSE LET lastEntry == history[Len(history)]
             secondLastEntry == history[Len(history) - 1]
             lastPrice == parsePrice(lastEntry.price)
             prevPrice == parsePrice(secondLastEntry.price)
         IN  IF lastEntry.date < now - TwentyFourHours THEN <<>>
             ELSE IF lastPrice = Infinity \/ prevPrice = Infinity \/ NumEq(lastPrice, prevPrice)
             THEN <<>>
             ELSE <<NumSub(lastPrice, prevPrice)>>

\* new URL(url): <<>> when it throws, else <<[base, params]>>, the URL up to its
\* query and the pairs of its query; the absolute URLs of the model by their parts
parseUrl(url) ==
    CASE url = "https://amazon/x" -> <<[base |-> "https://amazon/x", params |-> <<>>]>>
      [] url = "https://amazon/x?tag=old" ->
            <<[base |-> "https://amazon/x", params |-> << <<"tag", "old">> >>]>>
      [] url = "https://amazon/x?k=v&tag=old&tag=older" ->
            <<[base |-> "https://amazon/x",
               params |-> << <<"k", "v">>, <<"tag", "old">>, <<"tag", "older">> >>]>>
      [] url = "https://ml/x" -> <<[base |-> "https://ml/x", params |-> <<>>]>>
      [] url = "https://ml/x?afid=old" ->
            <<[base |-> "https://ml/x", params |-> << <<"afid", "old">> >>]>>
      [] url = "https://ml/m" -> <<[base |-> "https://ml/m", params |-> <<>>]>>
      [] OTHER -> <<>>

\* searchParams.append(key, value)
searchParamsAppend(params, key, value) == Append(params, <<key, value>>)

\* searchParams.set(key, value): the first pair of that key gets the value and
\* the other pairs of that key are removed; appended when there is none
searchParamsSet(params, key, value) ==
    LET hits == {i \in 1..Len(params) : params[i][1] = key}
    IN  IF hits = {} THEN Append(params, <<key, value>>)
        ELSE LET first == CHOOSE i \in hits : \A j \in hits : i <= j
                 kept == SelectSeq([i \in 1..Len(params) |->
                                       IF i = first THEN <<key, value, "kept">>
                                       ELSE IF i \in hits THEN <<key, value, "removed">>
                                       ELSE <<params[i][1], params[i][2], "kept">>],
                                   LAMBDA pair : pair[3] = "kept")
             IN  [i \in 1..Len(kept) |-> <<kept[i][1], kept[i][2]>>]

\* the query string of the pairs
RECURSIVE queryToString(_)
queryToString(params) ==
    IF params = <<>> THEN ""
    ELSE params[1][1] \o "=" \o params[1][2]
         \o (IF Len(params) = 1 THEN "" ELSE "&" \o queryToString(Drop(params, 1)))

\* urlObject.toString()
urlToString(u) == IF u.params = <<>> THEN u.base ELSE u.base \o "?" \o queryToString(u.params)

\* constructAffiliateUrl with searchParams.append for searchParams.set
constructAffiliateUrlAppend(url, storeName, productAffiliateIds) ==
    LET idToUse == IF storeName = "Amazon"
                   THEN OrElse(productAffiliateIds.amazon, globalAffiliateIds.amazon)
                   ELSE IF storeName = "Mercado Livre"
                   THEN OrElse(productAffiliateIds.mercadoLivre, globalAffiliateIds.mercadoLivre)
                   ELSE Null
        key == IF storeName = "Amazon" THEN "tag" ELSE "afid"
        parsed == parseUrl(url)
    IN  IF idToUse = Null \/ idToUse = "" \/ url = Null \/ url = "" \/ url = NAUrl THEN url
        ELSE IF parsed = <<>> THEN url
        ELSE urlToString([parsed[1] EXCEPT !.params = searchParamsAppend(@, key, idToUse)])

\* the href of a store's link on the card
constructAffiliateUrl(url, storeName, productAffiliateIds) ==
    LET idToUse == IF storeName = "Amazon"
                   THEN OrElse(productAffiliateIds.amazon, globalAffiliateIds.amazon)
                   ELSE IF storeName = "Mercado Livre"
                   THEN OrElse(productAffiliateIds.mercadoLivre, globalAffiliateIds.mercadoLivre)
                   ELSE Null
        key == IF storeName = "Amazon" THEN "tag" ELSE "afid"
        parsed == parseUrl(url)
    IN  IF idToUse = Null \/ idToUse = "" \/ url = Null \/ url = "" \/ url = NAUrl THEN url
        ELSE IF parsed = <<>> THEN url
        ELSE urlToString([parsed[1] EXCEPT !.params = searchParamsSet(@, key, idToUse)])

\* Math.min(...prices): NaN as soon as one price is NaN
RECURSIVE MathMin(_)
MathMin(prices) ==
    IF prices = <<>> THEN Infinity
    ELSE LET rest == MathMin(Drop(prices, 1))
         IN  IF prices[1].kind = "nan" \/ rest.kind = "nan" THEN NaN
             ELSE IF NumLess(prices[1], rest) THEN prices[1] ELSE rest

getBestPrice(p) ==
    LET prices == SelectSeq([k \in 1..Len(p.stores) |-> parsePrice(p.stores[k].currentPrice)],
                            LAMBDA price : price # Infinity)
    IN  IF Len(prices) > 0 THEN MathMin(prices) ELSE Infinity

\* the sign of a - b as Array.prototype.sort reads it: a NaN result (a NaN operand,
\* Infinity - Infinity) counts as 0
SubtractSign(a, b) ==
    IF a.kind = "nan" \/ b.kind = "nan" \/ (a.kind # "num" /\ a.kind = b.kind) THEN 0
    ELSE IF NumLess(a, b) THEN -1
    ELSE IF NumLess(b, a) THEN 1
    ELSE 0

\* the comparator of the sort: getBestPrice(a) - getBestPrice(b), or the reverse
comparePrice(a, b, order) ==
    IF order = "priceAsc" THEN SubtractSign(getBestPrice(a), getBestPrice(b))
    ELSE SubtractSign(getBestPrice(b), getBestPrice(a))

\* Array.prototype.sort: stable; x goes left past the elements it compares below
RECURSIVE insertSorted(_, _, _)
insertSorted(prefix, x, order) ==
    IF prefix = <<>> \/ comparePrice(x, Last(prefix), order) >= 0 THEN Append(prefix, x)
    ELSE Append(insertSorted(SubSeq(prefix, 1, Len(prefix) - 1), x, order), Last(prefix))

RECURSIVE arraySort(_, _)
arraySort(ps, order) ==
    IF ps = <<>> THEN <<>>
    ELSE insertSorted(arraySort(SubSeq(ps, 1, Len(ps) - 1), order), Last(ps), order)

\* filtered.filter(hasPriceDropped24h) under 'onSale24h': a new array
filterStep(ps, f) == IF f = "onSale24h" THEN SelectSeq(ps, hasPriceDropped24h) ELSE ps

\* filtered.sort(...) under 'priceAsc' and 'priceDesc': what the array it is
\* called on holds afterwards
sortStep(arr, order) ==
    IF order \in {"priceAsc", "priceDesc"} THEN arraySort(arr, order) ELSE arr

\* the arrays of the useMemo body, with `let filtered = products` for the copy:
\* under 'all' the sort orders the products array itself
viewArraysNoCopy(ps, f, order) ==
    [view |-> sortStep(filterStep(ps, f), order),
     products |-> IF f = "onSale24h" THEN ps ELSE sortStep(ps, order)]

\* the arrays of the useMemo body: `view` is what it returns and `products` is
\* what the products array holds afterwards; the sort orders the copy
\* [...products], or the array filter made of it, never the products array
viewArrays(ps, f, order) ==
    [view |-> sortStep(filterStep(ps, f), order), products |-> ps]

displayedProducts == viewArrays(products, filter, sort).view

\* products.findIndex(p => p.originalUrl === url), 1-based
findIndex(ps, url) ==
    CHOOSE i \in 1..Len(ps) : ps[i].originalUrl = url /\ \A j \in 1..(i - 1) : ps[j].originalUrl # url

(***************************************************************************)
(* The state after construction.                                           *)
(***************************************************************************)
Init ==
    /\ \E saved \in SavedValues : products = loadProducts(saved, 0)
    /\ stored = stringify(products)
    /\ productUrl = ""
    /\ globalAffiliateIds = DefaultAffiliateIds
    /\ isLoading = FALSE
    /\ isUpdatingAll = FALSE
    /\ updatingProductIndex = NoIndex
    /\ error = <<>>
    /\ filter = "all"
    /\ sort = "default"
    /\ editingState = <<>>
    /\ isSavingEdit = FALSE
    /\ now = 0
    /\ addCall = <<>>
    /\ refreshCall = <<>>
    /\ editCall = <<>>
    /\ calls = 0
    /\ theme = "light"
    /\ storedTheme = "light"
    /\ lifecycle = "mounted"
    /\ storage = StorageWorks

(***************************************************************************)
(* Which controls can be used: a control is usable when it is rendered and *)
(* its `disabled` attribute is false.  Rendering a collection with a hole  *)
(* throws (product.originalUrl of undefined) and React unmounts the App:   *)
(* nothing can be used any more.                                           *)
(***************************************************************************)
crashed == lifecycle # "mounted" \/ \E i \in 1..Len(products) : products[i] = Hole

urlInputDisabled == isLoading \/ isUpdatingAll \/ updatingProductIndex # NoIndex

addDisabled == isLoading \/ isUpdatingAll \/ updatingProductIndex # NoIndex \/ productUrl = ""

updateAllDisabled ==
    isLoading \/ isUpdatingAll \/ updatingProductIndex # NoIndex \/ Len(products) = 0

cardButtonsDisabled ==
    isLoading \/ isUpdatingAll \/ isSavingEdit \/ updatingProductIndex # NoIndex

modalOpen == editingState # <<>>

modalButtonsDisabled == isSavingEdit

(***************************************************************************)
(* Array helpers.                                                          *)
(***************************************************************************)
\* copy = [...ps]; copy[index] = p  (an index past the end leaves holes)
assignAt(ps, index, p) ==
    [i \in 1..(IF index > Len(ps) THEN index ELSE Len(ps)) |->
        IF i = index THEN p ELSE IF i <= Len(ps) THEN ps[i] ELSE Hole]

\* ps.filter((_, i) => i !== index)
removeAt(ps, index) ==
    [i \in 1..(IF index \in 1..Len(ps) THEN Len(ps) - 1 ELSE Len(ps)) |->
        IF index \in 1..Len(ps) /\ i >= index THEN ps[i + 1] ELSE ps[i]]

(***************************************************************************)
(* Inputs that are no handler of their own: typing and the clock.          *)
(***************************************************************************)
setProductUrl(u) ==
    /\ ~crashed /\ ~urlInputDisabled
    /\ productUrl' = u
    /\ UNCHANGED <<products, stored, globalAffiliateIds, isLoading, isUpdatingAll, updatingProductIndex,
                   error, filter, sort, editingState, isSavingEdit, now, addCall, refreshCall,
                   editCall, calls,
                   theme, storedTheme, lifecycle, storage>>

setGlobalAffiliateIds(field, v) ==
    /\ ~crashed
    /\ globalAffiliateIds' = [globalAffiliateIds EXCEPT ![field] = v]
    /\ UNCHANGED <<products, stored, productUrl, isLoading, isUpdatingAll, updatingProductIndex,
                   error, filter, sort, editingState, isSavingEdit, now, addCall, refreshCall,
                   editCall, calls,
                   theme, storedTheme, lifecycle, storage>>

\* the render that follows recomputes displayedProducts
setFilter(f) ==
    /\ ~crashed
    /\ filter' = f
    /\ products' = viewArrays(products, f, sort).products
    /\ UNCHANGED <<stored, productUrl, globalAffiliateIds, isLoading, isUpdatingAll,
                   updatingProductIndex, error, sort, editingState, isSavingEdit, now, addCall,
                   refreshCall, editCall, calls,
                   theme, storedTheme, lifecycle, storage>>

setSort(order) ==
    /\ ~crashed
    /\ sort' = order
    /\ products' = viewArrays(products, filter, order).products
    /\ UNCHANGED <<stored, productUrl, globalAffiliateIds, isLoading, isUpdatingAll,
                   updatingProductIndex, error, filter, editingState, isSavingEdit, now, addCall,
                   refreshCall, editCall, calls,
                   theme, storedTheme, lifecycle, storage>>

Tick ==
    /\ now < MaxTicks * TickMs
    /\ now' = now + TickMs
    /\ UNCHANGED <<products, stored, productUrl, globalAffiliateIds, isLoading, isUpdatingAll,
                   updatingProductIndex, error, filter, sort, editingState, isSavingEdit, addCall,
                   refreshCall, editCall, calls,
                   theme, storedTheme, lifecycle, storage>>

(***************************************************************************)
(* handleAddProduct: the click, and the continuation after the await.      *)
(***************************************************************************)
\* storesWithHistory that records no entry for a price that was not found
storesWithHistoryFound(stores, date) ==
    [i \in 1..Len(stores) |->
        LET store == stores[i]
        IN  ProductStore(store.name, store.url, store.price,
                         IF store.price = NA THEN <<>>
                         ELSE <<PriceHistoryEntry(date, store.price)>>)]

\* stores of a product resolved for the first time (add, URL-changing edit)
storesWithHistory(stores, date) ==
    [i \in 1..Len(stores) |->
        LET store == stores[i]
        IN  ProductStore(store.name, store.url, store.price,
                         <<PriceHistoryEntry(date, store.price)>>)]

handleAddProductEmpty ==
    /\ ~crashed /\ ~addDisabled
    /\ TrimUrl(productUrl) = ""
    /\ error' = <<"Por favor, insira o URL de um produto.">>
    /\ UNCHANGED <<products, stored, productUrl, globalAffiliateIds, isLoading, isUpdatingAll,
                   updatingProductIndex, filter, sort, editingState, isSavingEdit, now, addCall,
                   refreshCall, editCall, calls,
                   theme, storedTheme, lifecycle, storage>>

handleAddProduct ==
    /\ ~crashed /\ ~addDisabled
    /\ TrimUrl(productUrl) # ""
    /\ calls < MaxCalls /\ Len(products) < MaxProducts
    /\ isLoading' = TRUE
    /\ error' = <<>>
    /\ addCall' = <<[url |-> productUrl, globalAffiliateIds |-> globalAffiliateIds]>>
    /\ calls' = calls + 1
    /\ UNCHANGED <<products, stored, productUrl, globalAffiliateIds, isUpdatingAll,
                   updatingProductIndex, filter, sort, editingState, isSavingEdit, now,
                   refreshCall, editCall,
                   theme, storedTheme, lifecycle, storage>>

\* handleAddProductSettled with setIsLoading(false) at the end of the try block
\* instead of in finally
handleAddProductSettledNoFinally(answer) ==
    /\ ~crashed /\ addCall # <<>>
    /\ LET r == fetchProductData(addCall[1].url, answer) IN
       IF r.ok
       THEN /\ products' = Append(products,
                                  Product(r.value.productName, r.value.imageUrl,
                                          storesWithHistory(r.value.stores, now),
                                          r.value.originalUrl, addCall[1].globalAffiliateIds))
            /\ productUrl' = ""
            /\ error' = error
            /\ isLoading' = FALSE
       ELSE /\ error' = <<"Nao foi possivel buscar as informacoes. Detalhe: ", r.message>>
            /\ UNCHANGED <<products, productUrl, isLoading>>
    /\ persistProducts
    /\ addCall' = <<>>
    /\ UNCHANGED <<globalAffiliateIds, isUpdatingAll, updatingProductIndex, filter, sort,
                   editingState, isSavingEdit, now, refreshCall, editCall, calls,
                   theme, storedTheme, lifecycle, storage>>

handleAddProductSettled(answer) ==
    /\ ~crashed /\ addCall # <<>>
    /\ LET r == fetchProductData(addCall[1].url, answer) IN
       IF r.ok
       THEN /\ products' = Append(products,
                                  Product(r.value.productName, r.value.imageUrl,
                                          storesWithHistory(r.value.stores, now),
                                          r.value.originalUrl, addCall[1].globalAffiliateIds))
            /\ productUrl' = ""
            /\ error' = error
       ELSE /\ error' = <<"Nao foi possivel buscar as informacoes. Detalhe: ", r.message>>
            /\ UNCHANGED <<products, productUrl>>
    /\ persistProducts
    /\ isLoading' = FALSE
    /\ addCall' = <<>>
    /\ UNCHANGED <<globalAffiliateIds, isUpdatingAll, updatingProductIndex, filter, sort,
                   editingState, isSavingEdit, now, refreshCall, editCall, calls,
                   theme, storedTheme, lifecycle, storage>>

(***************************************************************************)
(* updateProductData and handleUpdateAllProducts.  All calls are issued by *)
(* the click; each settles on its own; the step in which the last one      *)
(* settles also runs what follows `await Promise.allSettled`.              *)
(***************************************************************************)
\* newPriceHistory without the comparison: every refresh appends
newPriceHistoryAlways(oldPriceHistory, price, date) ==
    Append(oldPriceHistory, PriceHistoryEntry(date, price))

\* newPriceHistory that skips a store with no history yet
newPriceHistoryNotFirst(oldPriceHistory, price, date) ==
    IF oldPriceHistory # <<>> /\ Last(oldPriceHistory).price # price
    THEN Append(oldPriceHistory, PriceHistoryEntry(date, price))
    ELSE oldPriceHistory

\* newPriceHistory that compares the whole last entry, date included
newPriceHistoryByEntry(oldPriceHistory, price, date) ==
    IF oldPriceHistory = <<>> \/ Last(oldPriceHistory) # PriceHistoryEntry(date, price)
    THEN Append(oldPriceHistory, PriceHistoryEntry(date, price))
    ELSE oldPriceHistory

\* the history of one store after a successful re-resolve
newPriceHistory(oldPriceHistory, price, date) ==
    IF oldPriceHistory = <<>> \/ Last(oldPriceHistory).price # price
    THEN Append(oldPriceHistory, PriceHistoryEntry(date, price))
    ELSE oldPriceHistory

\* updateProductData that returns { ...newData, stores } alone
updateProductDataSpread(product, newData, date) ==
    Product(newData.productName, newData.imageUrl,
            [i \in 1..Len(newData.stores) |->
                LET newStoreData == newData.stores[i]
                    oldStore == FindStore(product.stores, newStoreData.name)
                    oldPriceHistory == IF oldStore = <<>> THEN <<>> ELSE oldStore[1].priceHistory
                IN  ProductStore(newStoreData.name, newStoreData.url, newStoreData.price,
                                 newPriceHistory(oldPriceHistory, newStoreData.price, date))],
            newData.originalUrl, NoAffiliateIds)

\* updateProductData(product), given what fetchProductData returned
updateProductData(product, newData, date) ==
    Product(newData.productName, newData.imageUrl,
            [i \in 1..Len(newData.stores) |->
                LET newStoreData == newData.stores[i]
                    oldStore == FindStore(product.stores, newStoreData.name)
                    oldPriceHistory == IF oldStore = <<>> THEN <<>> ELSE oldStore[1].priceHistory
                IN  ProductStore(newStoreData.name, newStoreData.url, newStoreData.price,
                                 newPriceHistory(oldPriceHistory, newStoreData.price, date))],
            newData.originalUrl, product.affiliateIds)

\* a promise of updatePromises
Pending == [status |-> "pending", value |-> Hole]
Fulfilled(value) == [status |-> "fulfilled", value |-> value]
Rejected == [status |-> "rejected", value |-> Hole]

\* updatedProducts that gives up the whole batch when one call failed
updatedProductsOrNone(snapshot, results) ==
    IF \E i \in 1..Len(results) : results[i].status = "rejected" THEN snapshot
    ELSE [i \in 1..Len(results) |-> results[i].value]

\* results.map((result, index) => fulfilled ? result.value : products[index])
updatedProducts(snapshot, results) ==
    [i \in 1..Len(results) |->
        IF results[i].status = "fulfilled" THEN results[i].value ELSE snapshot[i]]

handleUpdateAllProducts ==
    /\ ~crashed /\ ~updateAllDisabled
    /\ calls + Len(products) <= MaxCalls
    /\ isUpdatingAll' = TRUE
    /\ error' = <<>>
    /\ refreshCall' = <<[products |-> products, results |-> [i \in 1..Len(products) |-> Pending]]>>
    /\ calls' = calls + Len(products)
    /\ UNCHANGED <<products, stored, productUrl, globalAffiliateIds, isLoading, updatingProductIndex,
                   filter, sort, editingState, isSavingEdit, now, addCall, editCall,
                   theme, storedTheme, lifecycle, storage>>

\* settle that files the result in the first free slot: completion order
settleInCompletionOrder(snapshot, results, i, answer, date) ==
    LET r == fetchProductData(snapshot[i].originalUrl, answer)
        slot == CHOOSE j \in 1..Len(results) :
                    /\ results[j].status = "pending"
                    /\ \A h \in 1..(j - 1) : results[h].status # "pending"
    IN  [results EXCEPT ![slot] = IF r.ok THEN Fulfilled(updateProductData(snapshot[i], r.value, date))
                                          ELSE Rejected]

\* the result of the i-th promise once its call got `answer`
settle(snapshot, results, i, answer, date) ==
    LET r == fetchProductData(snapshot[i].originalUrl, answer)
    IN  [results EXCEPT ![i] = IF r.ok THEN Fulfilled(updateProductData(snapshot[i], r.value, date))
                                       ELSE Rejected]

\* Promise.all instead of Promise.allSettled: the first rejection ends the wait
allOrFirstRejection(results) ==
    \/ \A i \in 1..Len(results) : results[i].status = "fulfilled"
    \/ \E i \in 1..Len(results) : results[i].status = "rejected"

allSettled(results) == \A i \in 1..Len(results) : results[i].status # "pending"

\* the calls of the running refresh that have not settled
pendingCalls ==
    IF refreshCall = <<>> THEN {}
    ELSE {i \in DOMAIN refreshCall[1].results : refreshCall[1].results[i].status = "pending"}

updateProductDataSettled(i, answer) ==
    /\ ~crashed /\ refreshCall # <<>>
    /\ i \in 1..Len(refreshCall[1].results)
    /\ refreshCall[1].results[i].status = "pending"
    /\ LET snapshot == refreshCall[1].products
           results == settle(snapshot, refreshCall[1].results, i, answer, now)
       IN  IF allSettled(results)
           THEN /\ products' = updatedProducts(snapshot, results)
                /\ isUpdatingAll' = FALSE
                /\ refreshCall' = <<>>
           ELSE /\ refreshCall' = <<[products |-> snapshot, results |-> results]>>
                /\ UNCHANGED <<products, isUpdatingAll>>
    /\ persistProducts
    /\ UNCHANGED <<productUrl, globalAffiliateIds, isLoading, updatingProductIndex, error,
                   filter, sort, editingState, isSavingEdit, now, addCall, editCall, calls,
                   theme, storedTheme, lifecycle, storage>>

(***************************************************************************)
(* The edit modal and handleSaveEdit.                                      *)
(***************************************************************************)
\* the edit button of the k-th displayed card
openEdit(k) ==
    /\ ~crashed /\ ~cardButtonsDisabled
    /\ k \in 1..Len(displayedProducts)
    /\ LET product == displayedProducts[k] IN
       editingState' = <<[product |-> product,
                          index |-> findIndex(products, product.originalUrl),
                          newUrl |-> product.originalUrl,
                          newAffiliateIds |->
                              [amazon |-> OrElse(product.affiliateIds.amazon, ""),
                               mercadoLivre |-> OrElse(product.affiliateIds.mercadoLivre, "")]]>>
    /\ UNCHANGED <<products, stored, productUrl, globalAffiliateIds, isLoading, isUpdatingAll,
                   updatingProductIndex, error, filter, sort, isSavingEdit, now, addCall,
                   refreshCall, editCall, calls,
                   theme, storedTheme, lifecycle, storage>>

setNewUrl(u) ==
    /\ ~crashed /\ modalOpen
    /\ editingState' = <<[editingState[1] EXCEPT !.newUrl = u]>>
    /\ UNCHANGED <<products, stored, productUrl, globalAffiliateIds, isLoading, isUpdatingAll,
                   updatingProductIndex, error, filter, sort, isSavingEdit, now, addCall,
                   refreshCall, editCall, calls,
                   theme, storedTheme, lifecycle, storage>>

setNewAffiliateIds(field, v) ==
    /\ ~crashed /\ modalOpen
    /\ editingState' = <<[editingState[1] EXCEPT !.newAffiliateIds[field] = v]>>
    /\ UNCHANGED <<products, stored, productUrl, globalAffiliateIds, isLoading, isUpdatingAll,
                   updatingProductIndex, error, filter, sort, isSavingEdit, now, addCall,
                   refreshCall, editCall, calls,
                   theme, storedTheme, lifecycle, storage>>

cancelEdit ==
    /\ ~crashed /\ modalOpen /\ ~modalButtonsDisabled
    /\ editingState' = <<>>
    /\ error' = <<>>
    /\ UNCHANGED <<products, stored, productUrl, globalAffiliateIds, isLoading, isUpdatingAll,
                   updatingProductIndex, filter, sort, isSavingEdit, now, addCall, refreshCall,
                   editCall, calls,
                   theme, storedTheme, lifecycle, storage>>

\* the URL was not changed: no call, the whole handler runs in the click
handleSaveEditSameUrl ==
    /\ ~crashed /\ modalOpen /\ ~modalButtonsDisabled
    /\ LET e == editingState[1] IN
       /\ e.newUrl = e.product.originalUrl
       /\ products' = assignAt(products, e.index,
                               [e.product EXCEPT !.affiliateIds = e.newAffiliateIds])
    /\ persistProducts
    /\ editingState' = <<>>
    /\ error' = <<>>
    /\ isSavingEdit' = FALSE
    /\ updatingProductIndex' = NoIndex
    /\ UNCHANGED <<productUrl, globalAffiliateIds, isLoading, isUpdatingAll, filter, sort, now,
                   addCall, refreshCall, editCall, calls,
                   theme, storedTheme, lifecycle, storage>>

\* the URL was changed: the click issues the call
handleSaveEdit ==
    /\ ~crashed /\ modalOpen /\ ~modalButtonsDisabled
    /\ calls < MaxCalls
    /\ LET e == editingState[1] IN
       /\ e.newUrl # e.product.originalUrl
       /\ updatingProductIndex' = e.index
       /\ editCall' = <<[products |-> products, index |-> e.index, newUrl |-> e.newUrl,
                         newAffiliateIds |-> e.newAffiliateIds]>>
    /\ isSavingEdit' = TRUE
    /\ error' = <<>>
    /\ editingState' = <<>>
    /\ calls' = calls + 1
    /\ UNCHANGED <<products, stored, productUrl, globalAffiliateIds, isLoading, isUpdatingAll,
                   filter, sort, now, addCall, refreshCall,
                   theme, storedTheme, lifecycle, storage>>

\* handleSaveEditSettled that reconciles the new data into the old histories
handleSaveEditSettledReconcile(answer) ==
    /\ ~crashed /\ editCall # <<>>
    /\ LET c == editCall[1]
           r == fetchProductData(c.newUrl, answer)
       IN  IF r.ok
           THEN /\ products' = assignAt(c.products, c.index,
                                        [updateProductData(
                                             IF c.index \in DOMAIN c.products THEN c.products[c.index]
                                             ELSE Product("", "", <<>>, "", NoAffiliateIds),
                                             r.value, now)
                                         EXCEPT !.affiliateIds = c.newAffiliateIds])
                /\ UNCHANGED <<error, editingState>>
           ELSE /\ error' = <<"Nao foi possivel salvar. Detalhe: ", r.message>>
                /\ editingState' = <<>>
                /\ UNCHANGED products
    /\ persistProducts
    /\ isSavingEdit' = FALSE
    /\ updatingProductIndex' = NoIndex
    /\ editCall' = <<>>
    /\ UNCHANGED <<productUrl, globalAffiliateIds, isLoading, isUpdatingAll, filter, sort, now,
                   addCall, refreshCall, calls,
                   theme, storedTheme, lifecycle, storage>>

handleSaveEditSettled(answer) ==
    /\ ~crashed /\ editCall # <<>>
    /\ LET c == editCall[1]
           r == fetchProductData(c.newUrl, answer)
       IN  IF r.ok
           THEN /\ products' = assignAt(c.products, c.index,
                                        Product(r.value.productName, r.value.imageUrl,
                                                storesWithHistory(r.value.stores, now),
                                                r.value.originalUrl, c.newAffiliateIds))
                /\ UNCHANGED <<error, editingState>>
           ELSE /\ error' = <<"Nao foi possivel salvar. Detalhe: ", r.message>>
                /\ editingState' = <<>>
                /\ UNCHANGED products
    /\ persistProducts
    /\ isSavingEdit' = FALSE
    /\ updatingProductIndex' = NoIndex
    /\ editCall' = <<>>
    /\ UNCHANGED <<productUrl, globalAffiliateIds, isLoading, isUpdatingAll, filter, sort, now,
                   addCall, refreshCall, calls,
                   theme, storedTheme, lifecycle, storage>>

\* the delete button of the k-th displayed card
handleDeleteProduct(k) ==
    /\ ~crashed /\ ~cardButtonsDisabled
    /\ k \in 1..Len(displayedProducts)
    /\ products' = removeAt(products, findIndex(products, displayedProducts[k].originalUrl))
    /\ persistProducts
    /\ UNCHANGED <<productUrl, globalAffiliateIds, isLoading, isUpdatingAll,
                   updatingProductIndex, error, filter, sort, editingState, isSavingEdit, now,
                   addCall, refreshCall, editCall, calls,
                   theme, storedTheme, lifecycle, storage>>

(***************************************************************************)
(* The specification of the admin workflow.  The filter stays 'all' and    *)
(* the sort 'default' here: the cards shown under another filter or sort   *)
(* are cards shown under these, with the same product and index, so they   *)
(* add no step to the collection; the filter, the sort and the global      *)
(* affiliate inputs are exercised by SpecView below.                       *)
(***************************************************************************)
Next ==
    \/ \E u \in UrlInputs : setProductUrl(u)
    \/ Tick
    \/ handleAddProductEmpty
    \/ handleAddProduct
    \/ \E answer \in Answers : handleAddProductSettled(answer)
    \/ handleUpdateAllProducts
    \/ \E i \in pendingCalls, answer \in Answers : updateProductDataSettled(i, answer)
    \/ \E k \in DOMAIN displayedProducts : openEdit(k)
    \/ \E u \in NewUrlInputs : setNewUrl(u)
    \/ \E a \in AffiliateInputs : setNewAffiliateIds(a.field, a.value)
    \/ cancelEdit
    \/ handleSaveEditSameUrl
    \/ handleSaveEdit
    \/ \E answer \in Answers : handleSaveEditSettled(answer)
    \/ \E k \in DOMAIN displayedProducts : handleDeleteProduct(k)

Spec == Init /\ [][Next]_vars

(***************************************************************************)
(* The admin workflow under the assumption that every resolver call        *)
(* settles: a call that is outstanding is answered sooner or later, with   *)
(* a rejection or with a product.  The clock stands still and the resolver *)
(* has one way to fail and one to succeed.                                 *)
(***************************************************************************)
LiveAnswers ==
    { Answer("reject", "none", NoPayload),
      Answer("text", "object",
             Payload(Null, "Fone", "img", Listing(P80, "https://amazon/x"), <<>>)) }

addSettles == \E answer \in LiveAnswers : handleAddProductSettled(answer)

refreshCallSettles ==
    \E i \in pendingCalls, answer \in LiveAnswers : updateProductDataSettled(i, answer)

editSettles == \E answer \in LiveAnswers : handleSaveEditSettled(answer)

NextLive ==
    \/ \E u \in UrlInputs : setProductUrl(u)
    \/ handleAddProductEmpty
    \/ handleAddProduct
    \/ addSettles
    \/ handleUpdateAllProducts
    \/ refreshCallSettles
    \/ \E k \in DOMAIN displayedProducts : openEdit(k)
    \/ \E u \in NewUrlInputs : setNewUrl(u)
    \/ cancelEdit
    \/ handleSaveEditSameUrl
    \/ handleSaveEdit
    \/ editSettles
    \/ \E k \in DOMAIN displayedProducts : handleDeleteProduct(k)

SpecLive ==
    /\ Init /\ [][NextLive]_vars
    /\ WF_vars(addSettles) /\ WF_vars(refreshCallSettles) /\ WF_vars(editSettles)

(***************************************************************************)
(* The specification of the derived views: one card over every product of  *)
(* a bounded set of Product values, rendered at an evaluation time at and  *)
(* just past the edge of the 24 h window, under every filter, and the list *)
(* of cards over every collection of up to MaxViewProducts products of a   *)
(* smaller set, under every filter and sort.                               *)
(***************************************************************************)
MaxHistory == 2       \* entries of a price history in the view inputs
MaxViewProducts == 2  \* products of a collection in the view inputs

SeqsUpTo(S, n) == UNION {[1..k -> S] : k \in 0..n}

ViewPrices == {NullChars, NA, P80, P100}

ViewUrls == {Null, NAUrl, "https://amazon/x"}

ViewDates == {0, 1}

ViewNows == {TwentyFourHours, TwentyFourHours + 1}

ViewHistories ==
    SeqsUpTo({PriceHistoryEntry(d, p) : d \in ViewDates, p \in ViewPrices}, MaxHistory)

ViewProducts ==
    { Product("Fone", "img", <<ProductStore("Amazon", u1, c1, h1),
                               ProductStore("Mercado Livre", u2, c2, h2)>>,
              "https://a.example/p1", DefaultAffiliateIds) :
        u1 \in ViewUrls, c1 \in ViewPrices, h1 \in ViewHistories,
        u2 \in {NAUrl, "https://ml/x"}, c2 \in {NA, P80},
        h2 \in {<<>>, <<PriceHistoryEntry(0, P100), PriceHistoryEntry(1, P80)>>} }

\* the history of a store whose price is c: the price has just dropped to P80
SortHistory(c) ==
    IF c = P80 THEN <<PriceHistoryEntry(0, P100), PriceHistoryEntry(1, P80)>>
    ELSE <<PriceHistoryEntry(0, c)>>

SortUrls == <<"https://a.example/p1", "https://b.example/p2", "https://c.example/p3">>

\* the products that can stand at position i of a collection
SortProducts(i) ==
    { Product("Fone", "img", <<ProductStore("Amazon", "https://amazon/x", c1, SortHistory(c1)),
                               ProductStore("Mercado Livre", "https://ml/x", c2, SortHistory(c2))>>,
              SortUrls[i], DefaultAffiliateIds) :
        c1 \in {NA, P80, P100, PText}, c2 \in {NA, P80, P100} }

SortCollections ==
    UNION { {ps \in [1..n -> UNION {SortProducts(i) : i \in 1..n}] :
                \A i \in 1..n : ps[i] \in SortProducts(i)} : n \in 2..MaxViewProducts }

InitView ==
    /\ \/ \E p \in ViewProducts : products = <<p>>
       \/ products \in SortCollections
    /\ stored = stringify(products)
    /\ now \in ViewNows
    /\ productUrl = ""
    /\ globalAffiliateIds = DefaultAffiliateIds
    /\ isLoading = FALSE
    /\ isUpdatingAll = FALSE
    /\ updatingProductIndex = NoIndex
    /\ error = <<>>
    /\ filter = "all"
    /\ sort = "default"
    /\ editingState = <<>>
    /\ isSavingEdit = FALSE
    /\ addCall = <<>>
    /\ refreshCall = <<>>
    /\ editCall = <<>>
    /\ calls = 0
    /\ theme = "light"
    /\ storedTheme = "light"
    /\ lifecycle = "mounted"
    /\ storage = StorageWorks

NextView ==
    \/ \E f \in {"all", "onSale24h"} : setFilter(f)
    \/ \E order \in {"default", "priceAsc", "priceDesc"} : setSort(order)
    \/ \E a \in AffiliateInputs : setGlobalAffiliateIds(a.field, a.value)

SpecView == InitView /\ [][NextView]_vars

(***************************************************************************)
(* The specification of one card: the price-change indicators and the      *)
(* affiliate links of a product, over histories that hold well-formed,     *)
(* unavailable and malformed prices and over store URLs of every shape,    *)
(* while the user edits the global and the product's own affiliate ids.    *)
(***************************************************************************)
CardPrices == {NA, P80, P100, PText}

CardHistories ==
    SeqsUpTo({PriceHistoryEntry(d, p) : d \in ViewDates, p \in CardPrices}, MaxHistory)

\* store URLs: missing, empty, the sentinel, no URL, and URLs with and without a query
CardUrls ==
    {Null, "", NAUrl, "amazon/x", "https://amazon/x", "https://amazon/x?tag=old",
     "https://amazon/x?k=v&tag=old&tag=older"}

CardAffiliateIds == {NoAffiliateIds, [amazon |-> "mine-20", mercadoLivre |-> ""]}

\* values typed into the affiliate-id fields
CardAffiliateInputs ==
    {[field |-> "amazon", value |-> ""], [field |-> "amazon", value |-> "other-20"],
     [field |-> "mercadoLivre", value |-> "meu"]}

CardProduct(h, u1, u2, ids) ==
    Product("Fone", "img",
            <<ProductStore("Amazon", u1, IF h = <<>> THEN NA ELSE Last(h).price, h),
              ProductStore("Mercado Livre", u2, P100, <<PriceHistoryEntry(0, P100)>>)>>,
            "https://a.example/p1", ids)

CardProducts ==
    {CardProduct(h, "https://amazon/x", "https://ml/x", DefaultAffiliateIds) : h \in CardHistories}
    \cup {CardProduct(<<PriceHistoryEntry(0, P80)>>, u1, u2, ids) :
             u1 \in CardUrls, u2 \in {"https://ml/x", "https://ml/x?afid=old"},
             ids \in CardAffiliateIds}

InitCard ==
    /\ \E p \in CardProducts : products = <<p>>
    /\ stored = stringify(products)
    /\ now \in ViewNows
    /\ productUrl = ""
    /\ globalAffiliateIds = DefaultAffiliateIds
    /\ isLoading = FALSE
    /\ isUpdatingAll = FALSE
    /\ updatingProductIndex = NoIndex
    /\ error = <<>>
    /\ filter = "all"
    /\ sort = "default"
    /\ editingState = <<>>
    /\ isSavingEdit = FALSE
    /\ addCall = <<>>
    /\ refreshCall = <<>>
    /\ editCall = <<>>
    /\ calls = 0
    /\ theme = "light"
    /\ storedTheme = "light"
    /\ lifecycle = "mounted"
    /\ storage = StorageWorks

NextCard ==
    \/ \E a \in CardAffiliateInputs : setGlobalAffiliateIds(a.field, a.value)
    \/ \E k \in DOMAIN displayedProducts : openEdit(k)
    \/ \E a \in CardAffiliateInputs : setNewAffiliateIds(a.field, a.value)
    \/ cancelEdit
    \/ handleSaveEditSameUrl

SpecCard == InitCard /\ [][NextCard]_vars

(***************************************************************************)
(* The specification of loading and saving: the first render, with what    *)
(* localStorage holds under 'priceTrackerProducts' (every saved format)    *)
(* and under 'theme', and a storage whose reads and writes can throw; then *)
(* the theme toggle and the edits and deletes of the loaded products.      *)
(***************************************************************************)
\* the initializer of the products state: its body is inside try / catch
productsInitializer ==
    IF storage.reads THEN loadProducts(stored, now) ELSE <<>>

\* the initializer of the theme state, given matchMedia('(prefers-color-scheme: dark)')
themeInitializer(prefersDark) ==
    IF storedTheme # Null /\ storedTheme # "" THEN storedTheme
    ELSE IF prefersDark THEN "dark" ELSE "light"

\* the first render and the effects that follow it.  The theme initializer
\* and the theme effect call localStorage outside any try: when the call
\* throws, the error leaves the component and React removes the tree
mount(prefersDark) ==
    /\ lifecycle = "unmounted"
    /\ products' = productsInitializer
    /\ IF ~storage.reads
       THEN /\ lifecycle' = "raised"
            /\ UNCHANGED <<stored, theme, storedTheme>>
       ELSE /\ theme' = themeInitializer(prefersDark)
            /\ persistProducts
            /\ IF storage.writes
               THEN storedTheme' = theme' /\ lifecycle' = "mounted"
               ELSE storedTheme' = storedTheme /\ lifecycle' = "raised"
    /\ UNCHANGED <<productUrl, globalAffiliateIds, isLoading, isUpdatingAll, updatingProductIndex,
                   error, filter, sort, editingState, isSavingEdit, now, addCall, refreshCall,
                   editCall, calls, storage>>

\* the theme button, and the effect of [theme] that follows the render
setTheme ==
    /\ ~crashed
    /\ theme' = IF theme = "light" THEN "dark" ELSE "light"
    /\ IF storage.writes
       THEN storedTheme' = theme' /\ lifecycle' = lifecycle
       ELSE storedTheme' = storedTheme /\ lifecycle' = "raised"
    /\ UNCHANGED <<products, stored, productUrl, globalAffiliateIds, isLoading, isUpdatingAll,
                   updatingProductIndex, error, filter, sort, editingState, isSavingEdit, now,
                   addCall, refreshCall, editCall, calls, storage>>

\* the browser: storage starts or stops to throw on reads, on writes
setStorage(s) ==
    /\ storage' = s
    /\ UNCHANGED <<products, stored, productUrl, globalAffiliateIds, isLoading, isUpdatingAll,
                   updatingProductIndex, error, filter, sort, editingState, isSavingEdit, now,
                   addCall, refreshCall, editCall, calls, theme, storedTheme, lifecycle>>

StorageStates == [reads : BOOLEAN, writes : BOOLEAN]

\* products saved in the old format: stores carry `price` (string | null), and
\* no currentPrice; one of them was given a history by hand
SavedOld ==
    Product("Fone", "img", << SavedStore("Amazon", "https://amazon/x", TRUE, P100, NullChars, <<>>),
                              SavedStore("Mercado Livre", NAUrl, TRUE, NA, NullChars, <<>>) >>,
            "https://a.example/p1", DefaultAffiliateIds)

SavedOldNoPrice ==
    Product("Fone", "img", << SavedStore("Amazon", "https://amazon/x", TRUE, P100, NullChars, <<>>),
                              SavedStore("Mercado Livre", Null, TRUE, NullChars, NullChars, <<>>) >>,
            "https://a.example/p1", NoAffiliateIds)

SavedOldWithHistory ==
    Product("Mouse", "img",
            << SavedStore("Amazon", "https://amazon/x", TRUE, P80, NullChars,
                          <<(<<PriceHistoryEntry(0, P100), PriceHistoryEntry(0, P80)>>)>>),
               SavedStore("Mercado Livre", NAUrl, TRUE, NA, NullChars, <<>>) >>,
            "https://b.example/p2", DefaultAffiliateIds)

LoadValues ==
    SavedValues \cup { [kind |-> "json", value |-> <<SavedOld>>],
                       [kind |-> "json", value |-> <<SavedOldNoPrice>>],
                       [kind |-> "json", value |-> <<SavedOld, SavedOldWithHistory>>],
                       [kind |-> "json", value |-> <<SavedIntermediate, SavedOld>>] }

InitLoad ==
    /\ lifecycle = "unmounted"
    /\ stored \in LoadValues
    /\ storedTheme \in {Null, "dark"}
    /\ storage \in StorageStates
    /\ now \in {0, TickMs}
    /\ products = <<>>
    /\ theme = "light"
    /\ productUrl = ""
    /\ globalAffiliateIds = DefaultAffiliateIds
    /\ isLoading = FALSE
    /\ isUpdatingAll = FALSE
    /\ updatingProductIndex = NoIndex
    /\ error = <<>>
    /\ filter = "all"
    /\ sort = "default"
    /\ editingState = <<>>
    /\ isSavingEdit = FALSE
    /\ addCall = <<>>
    /\ refreshCall = <<>>
    /\ editCall = <<>>
    /\ calls = 0

NextLoad ==
    \/ \E prefersDark \in BOOLEAN : mount(prefersDark)
    \/ setTheme
    \/ \E s \in StorageStates : setStorage(s)
    \/ \E k \in DOMAIN displayedProducts : openEdit(k)
    \/ cancelEdit
    \/ handleSaveEditSameUrl
    \/ \E k \in DOMAIN displayedProducts : handleDeleteProduct(k)

SpecLoad == InitLoad /\ [][NextLoad]_vars

(***************************************************************************)
(* What a price string is worth, read off the strings of the model: the    *)
(* yardstick the parsed prices are held against.                           *)
(***************************************************************************)
Unavailable(price) == price = NA \/ price = NullChars

Cents(price) == IF price = P80 THEN 8000 ELSE IF price = P100 THEN 10000 ELSE -1

\* price a is strictly lower than price b, an unavailable price being +infinity
StrictlyLower(a, b) ==
    /\ ~Unavailable(a)
    /\ Unavailable(b) \/ Cents(a) < Cents(b)

AllProducts == {p \in Range(products) : p # Hole}

AllStores == UNION {Range(p.stores) : p \in AllProducts}

SecondLast(h) == h[Len(h) - 1]

(***************************************************************************)
(* Helpers of the properties.                                              *)
(***************************************************************************)
IsPrefix(s, t) == Len(s) <= Len(t) /\ SubSeq(t, 1, Len(s)) = s

\* the history a product keeps for the store called name, <<>> when it has none
HistoryOf(p, name) ==
    LET c == {s \in Range(p.stores) : s.name = name}
    IN  IF c = {} THEN <<>> ELSE (CHOOSE s \in c : TRUE).priceHistory

\* the products the initializer can produce
LoadedProducts == UNION {Range(loadProducts(saved, 0)) : saved \in SavedValues}

\* p is a product as loaded, but for its affiliateIds
AsLoaded(p) == \E q \in LoadedProducts : [p EXCEPT !.affiliateIds = q.affiliateIds] = q

LoadedA == loadProducts([kind |-> "json", value |-> SavedCurrent], 0)[1]
LoadedB == loadProducts([kind |-> "json", value |-> SavedCurrent], 0)[2]
LoadedIntermediate == loadProducts([kind |-> "json", value |-> <<SavedIntermediate>>], 0)[1]

\* the answers the claims call a failed resolve
ClaimedFailures ==
    {a \in Answers : a.kind = "reject" \/ a.json # "object" \/ a.data.error # Null}

(***************************************************************************)
(* C1.  When a call of refresh-all resolves, each store of the result      *)
(* keeps the product's history for that store and, when that history is    *)
(* empty or its last price is not the resolved price string, one entry     *)
(* {date: now, price: resolved price} more at the end; otherwise the       *)
(* history is the same.                                                    *)
(***************************************************************************)
C1_Reconcile ==
    [][\A i \in pendingCalls, answer \in GoodAnswers :
          updateProductDataSettled(i, answer) =>
              LET before == refreshCall[1].products[i]
                  after == IF refreshCall' = <<>> THEN products'[i]
                           ELSE refreshCall'[1].results[i].value
              IN  /\ Len(after.stores) = 2
                  /\ \A k \in 1..2 :
                        LET old == HistoryOf(before, after.stores[k].name)
                            new == after.stores[k].priceHistory
                            price == after.stores[k].currentPrice
                        IN  IF old = <<>> \/ Last(old).price # price
                            THEN /\ Len(new) = Len(old) + 1
                                 /\ SubSeq(new, 1, Len(old)) = old
                                 /\ Last(new) = [date |-> now, price |-> price]
                            ELSE new = old]_vars

\* a refresh one tick after loading gave the store without history its first entry
\* ('N/A') and left the other store, whose price came back the same, alone
C1_Witness ==
    \E p \in AllProducts :
        /\ p.productName = "Nome nao encontrado"
        /\ p.stores[1].priceHistory = <<PriceHistoryEntry(TickMs, NA)>>
        /\ p.stores[2].priceHistory = <<PriceHistoryEntry(0, P100)>>
        /\ p.stores[2].currentPrice = P100

(***************************************************************************)
(* C2.  In a step that deletes nothing and in which no URL-changing edit   *)
(* completes, every product that keeps its place and its originalUrl keeps *)
(* every entry of every store's priceHistory: the old history is a prefix  *)
(* of the new one.  Saving an edit writes back the product as it was when  *)
(* the modal was opened, which undoes a refresh that completed since.      *)
(***************************************************************************)
C2_HistoryOnlyGrows ==
    [][\A i \in 1..Len(products) :
          /\ Len(products') >= Len(products)
          /\ editCall' = editCall
          /\ products[i] # Hole /\ products'[i] # Hole
          /\ products'[i].originalUrl = products[i].originalUrl
          => \A name \in {"Amazon", "Mercado Livre"} :
                IsPrefix(HistoryOf(products[i], name), HistoryOf(products'[i], name))]_vars

C4_FailureIsolated ==
    [][\A i \in pendingCalls, answer \in Answers :
          updateProductDataSettled(i, answer) /\ refreshCall' = <<>> =>
              LET snapshot == refreshCall[1].products
                  results == refreshCall[1].results
              IN  \A j \in DOMAIN results :
                     products'[j] =
                        IF j = i
                        THEN (IF answer \in GoodAnswers
                              THEN updateProductData(snapshot[j],
                                       fetchProductData(snapshot[j].originalUrl, answer).value, now)
                              ELSE snapshot[j])
                        ELSE (IF results[j].status = "fulfilled" THEN results[j].value
                              ELSE snapshot[j])]_vars

\* of two loaded products the first was refreshed and the second, whose call
\* failed, is as it was
C4_Witness ==
    /\ refreshCall = <<>> /\ ~isUpdatingAll
    /\ Len(products) = 2
    /\ products[2] = LoadedB
    /\ products[1].originalUrl = LoadedA.originalUrl
    /\ Len(products[1].stores[1].priceHistory) = 2

(***************************************************************************)
(* C5.  The collection refresh-all writes is as long as the collection it  *)
(* started from, and each position holds a product of the originalUrl that *)
(* position had, in whatever order the calls settle and whichever fail.    *)
(***************************************************************************)
C5_OrderKept ==
    [][refreshCall # <<>> /\ refreshCall' = <<>> =>
          /\ Len(products') = Len(refreshCall[1].products)
          /\ \A j \in 1..Len(products') :
                products'[j].originalUrl = refreshCall[1].products[j].originalUrl]_vars

\* both loaded products were refreshed, each at its own position
C5_Witness ==
    /\ refreshCall = <<>> /\ ~isUpdatingAll
    /\ Len(products) = 2
    /\ products[1].originalUrl = LoadedA.originalUrl
    /\ products[1].productName = "Nome nao encontrado"
    /\ products[2].originalUrl = LoadedB.originalUrl
    /\ products[2].productName = "Fone"

(***************************************************************************)
(* C6.  Refresh-all is a fully-settled join.  The click issues one call    *)
(* per product and writes nothing; while a call is pending the refresh is  *)
(* running (isUpdatingAll) and a settling call writes nothing; the         *)
(* collection is written, and the refresh ends, in the step in which the   *)
(* last pending call settles, be it fulfilled or rejected.                 *)
(***************************************************************************)
C6_SettledJoin ==
    [][/\ refreshCall = <<>> /\ refreshCall' # <<>> =>
            /\ products' = products
            /\ calls' = calls + Len(products)
            /\ DOMAIN refreshCall'[1].results = DOMAIN products
            /\ \A j \in DOMAIN products : refreshCall'[1].results[j].status = "pending"
       /\ refreshCall # <<>> =>
            /\ isUpdatingAll /\ pendingCalls # {}
            /\ refreshCall' # <<>> /\ refreshCall' # refreshCall =>
                  /\ products' = products /\ isUpdatingAll'
                  /\ refreshCall'[1].products = refreshCall[1].products
            /\ refreshCall' = <<>> =>
                  /\ Cardinality(pendingCalls) = 1
                  /\ ~isUpdatingAll'
                  /\ Len(products') = Len(refreshCall[1].products)]_vars

\* one call of two has rejected, the other is pending, and nothing was written
C6_Witness ==
    /\ refreshCall # <<>>
    /\ Len(refreshCall[1].results) = 2
    /\ refreshCall[1].results[1].status = "rejected"
    /\ refreshCall[1].results[2].status = "pending"
    /\ products = refreshCall[1].products
    /\ isUpdatingAll

(***************************************************************************)
(* C7.  When the call of an add or of a URL-changing edit fails (it        *)
(* rejects, its text has no JSON object that parses, or its object has an  *)
(* error field), the step leaves the collection as it is and sets error.   *)
(***************************************************************************)
C7_FailureLeavesCollection ==
    [][\A answer \in ClaimedFailures :
          handleAddProductSettled(answer) \/ handleSaveEditSettled(answer) =>
              products' = products /\ error' # <<>>]_vars

\* a URL-changing edit failed on an error field: the collection is the loaded one
C7_Witness ==
    /\ error = <<"Nao foi possivel salvar. Detalhe: ", "A IA retornou um erro: quota">>
    /\ editCall = <<>> /\ ~isSavingEdit /\ updatingProductIndex = NoIndex
    /\ products = <<LoadedA, LoadedB>>

(***************************************************************************)
(* C8.  hasPriceDropped24h reports no drop for a store whose last two      *)
(* history entries go from an unavailable price ('N/A', null) to an        *)
(* available one, nor for one that goes from available to unavailable.     *)
(* The code compares parsePrice values, and a price is below Infinity.     *)
(***************************************************************************)
C8_NoDropAcrossUnavailable ==
    \A s \in AllStores :
        /\ Len(s.priceHistory) >= 2
        /\ Unavailable(SecondLast(s.priceHistory).price) # Unavailable(Last(s.priceHistory).price)
        => ~storeDropped24h(s)

(***************************************************************************)
(* C9.  hasPriceDropped24h(p) is true exactly when some store of p has at  *)
(* least two history entries, its last entry is at most 24 hours old, and  *)
(* the last price is strictly lower than the one before it (an unavailable *)
(* price counting as +infinity); so it is false when no store has two      *)
(* entries.                                                                *)
(***************************************************************************)
C9_DropIffRecentLower ==
    \A p \in AllProducts :
        hasPriceDropped24h(p) <=>
            \E s \in Range(p.stores) :
                /\ Len(s.priceHistory) >= 2
                /\ now - Last(s.priceHistory).date <= TwentyFourHours
                /\ StrictlyLower(Last(s.priceHistory).price, SecondLast(s.priceHistory).price)

\* the filter keeps a product whose only drop is exactly 24 hours old
C9_Witness ==
    /\ filter = "onSale24h"
    /\ Len(filtered) = 1
    /\ Len(products[1].stores[2].priceHistory) < 2
    /\ Len(products[1].stores[1].priceHistory) = 2
    /\ now - Last(products[1].stores[1].priceHistory).date = TwentyFourHours
    /\ products[1].stores[1].priceHistory[1].price = P100
    /\ products[1].stores[1].priceHistory[2].price = P80

(***************************************************************************)
(* C10.  bestOffer never returns a store whose price or URL is null or     *)
(* 'N/A', and it returns null exactly when no store of the product has     *)
(* both a price and a URL that are neither null nor 'N/A'.                 *)
(***************************************************************************)
Qualifies(s) == ~Unavailable(s.currentPrice) /\ s.url # Null /\ s.url # NAUrl

C10_BestOfferQualifies ==
    \A p \in AllProducts :
        /\ bestOffer(p) # <<>> => bestOffer(p)[1] \in Range(p.stores) /\ Qualifies(bestOffer(p)[1])
        /\ bestOffer(p) = <<>> <=> ~ \E s \in Range(p.stores) : Qualifies(s)

\* the cheaper store has a price but no URL, and the other store is the best offer
C10_Witness ==
    /\ Len(products) = 1
    /\ products[1].stores[1].currentPrice = P80
    /\ products[1].stores[1].url = NAUrl
    /\ Qualifies(products[1].stores[2])
    /\ bestOffer(products[1]) = <<products[1].stores[2]>>

\* what a price string is worth as a number: its amount, +Infinity when it is
\* unavailable or no price
Worth(price) == IF Cents(price) >= 0 THEN Num(Cents(price), -2) ELSE Infinity

AtMost(a, b) == NumLess(a, b) \/ NumEq(a, b)

(***************************************************************************)
(* C11.  The store bestOffer returns is worth at most what every store     *)
(* with a price and a URL (neither null nor 'N/A') is worth, and strictly  *)
(* less than each such store that stands before it in the stores list,     *)
(* whatever text the price fields hold.  parseFloat gives NaN for a text   *)
(* that is no price, every comparison with NaN is false, and reduce keeps  *)
(* a first store with such a price against any real price.                 *)
(***************************************************************************)
C11_BestOfferLowest ==
    \A p \in AllProducts :
        bestOffer(p) # <<>> =>
            LET best == bestOffer(p)[1]
                at == CHOOSE k \in 1..Len(p.stores) : p.stores[k] = best
            IN  \A k \in 1..Len(p.stores) :
                    Qualifies(p.stores[k]) =>
                        /\ AtMost(Worth(best.currentPrice), Worth(p.stores[k].currentPrice))
                        /\ k < at => NumLess(Worth(best.currentPrice),
                                             Worth(p.stores[k].currentPrice))

(***************************************************************************)
(* C12.  parsePrice never returns NaN, and it returns +Infinity for null,  *)
(* for 'N/A' and for every text that is no price.  The code hands the      *)
(* stripped text to parseFloat, which returns NaN when the text does not   *)
(* start with a number.                                                    *)
(***************************************************************************)
C12_ParserNeverNaN ==
    \A s \in AllStores :
        /\ parsePrice(s.currentPrice).kind # "nan"
        /\ Cents(s.currentPrice) < 0 => parsePrice(s.currentPrice) = Infinity

\* the price an answer holds for the k-th store, 'N/A' when it holds none
ResolvedPrice(answer, k) ==
    LET l == IF k = 1 THEN answer.data.amazon ELSE answer.data.mercadoLivre
    IN  IF l = <<>> \/ l[1].price = NullChars THEN NA ELSE l[1].price

\* the product the i-th call of the refresh resolved to, in the step that settles it
Refreshed(i) ==
    IF refreshCall' = <<>> THEN products'[i] ELSE refreshCall'[1].results[i].value

(***************************************************************************)
(* C13.  A successful refresh appends one entry to a store's history when  *)
(* the resolved price is not the last price of the history it started      *)
(* from, and none when it is; refreshing the result again, later, with an  *)
(* answer that resolves the same price string for the store leaves that    *)
(* store's history as the first refresh made it.                           *)
(***************************************************************************)
C13_Idempotent ==
    [][\A i \in pendingCalls, answer \in GoodAnswers :
          updateProductDataSettled(i, answer) =>
              LET before == refreshCall[1].products[i]
                  once == Refreshed(i)
              IN  \A again \in GoodAnswers, k \in 1..2 :
                     LET twice == updateProductData(
                                      once, fetchProductData(once.originalUrl, again).value,
                                      now + TickMs)
                         old == HistoryOf(before, once.stores[k].name)
                         price == ResolvedPrice(answer, k)
                     IN  ResolvedPrice(again, k) = price =>
                            /\ Len(once.stores[k].priceHistory) =
                                   Len(old) + (IF old # <<>> /\ Last(old).price = price
                                               THEN 0 ELSE 1)
                            /\ twice.stores[k].priceHistory = once.stores[k].priceHistory]_vars

\* the loaded product was refreshed at time 0 and again one tick later, both
\* times to 'R$ 80,00' on Amazon: that history got one entry, while the second
\* refresh left its mark on the history of Mercado Livre
C13_Witness ==
    /\ refreshCall = <<>> /\ ~isUpdatingAll
    /\ Len(products) = 1
    /\ products[1].originalUrl = LoadedIntermediate.originalUrl
    /\ products[1].stores[1].priceHistory = <<PriceHistoryEntry(0, P80)>>
    /\ products[1].stores[2].priceHistory =
           <<PriceHistoryEntry(0, P100), PriceHistoryEntry(0, P80),
             PriceHistoryEntry(TickMs, NA)>>

(***************************************************************************)
(* C14.  When the call of an add resolves, the collection is the one       *)
(* before with one product more at its end, the product of the URL that    *)
(* was added, and each store of that product has a priceHistory of one     *)
(* entry: the time of the add and the resolved price, 'N/A' included.      *)
(***************************************************************************)
C14_AddAppendsOne ==
    [][\A answer \in GoodAnswers :
          handleAddProductSettled(answer) =>
              /\ Len(products') = Len(products) + 1
              /\ SubSeq(products', 1, Len(products)) = products
              /\ LET p == Last(products') IN
                    /\ p.originalUrl = addCall[1].url
                    /\ Len(p.stores) = 2
                    /\ \A k \in 1..2 :
                          /\ p.stores[k].currentPrice = ResolvedPrice(answer, k)
                          /\ p.stores[k].priceHistory =
                                 <<[date |-> now, price |-> ResolvedPrice(answer, k)]>>]_vars

\* a product was added behind the loaded one, one tick after loading; it was
\* not found on Mercado Livre
C14_Witness ==
    /\ addCall = <<>> /\ ~isLoading
    /\ Len(products) = 2
    /\ products[1] = LoadedIntermediate
    /\ products[2] # Hole
    /\ products[2].stores[1].priceHistory = <<PriceHistoryEntry(TickMs, P100)>>
    /\ products[2].stores[2].priceHistory = <<PriceHistoryEntry(TickMs, NA)>>

(***************************************************************************)
(* C15.  When the call of an edit that changed the URL resolves, the       *)
(* product at the edited position is the product of the new URL and each   *)
(* of its stores has a priceHistory of one entry, the time of the save and *)
(* the resolved price: nothing of an earlier history is kept.              *)
(***************************************************************************)
C15_EditReplacesHistory ==
    [][\A answer \in GoodAnswers :
          handleSaveEditSettled(answer) =>
              LET p == products'[editCall[1].index] IN
                 /\ p.originalUrl = editCall[1].newUrl
                 /\ Len(p.stores) = 2
                 /\ \A k \in 1..2 :
                       /\ p.stores[k].currentPrice = ResolvedPrice(answer, k)
                       /\ p.stores[k].priceHistory =
                              <<[date |-> now, price |-> ResolvedPrice(answer, k)]>>]_vars

\* the loaded product, which had a Mercado Livre history, was pointed at another
\* URL one tick after loading
C15_Witness ==
    /\ editCall = <<>> /\ ~isSavingEdit
    /\ Len(products) = 1
    /\ products[1].originalUrl = "https://a.example/p1"
    /\ products[1].affiliateIds.mercadoLivre = ""
    /\ products[1].stores[2].priceHistory = <<PriceHistoryEntry(TickMs, P80)>>

(***************************************************************************)
(* C16.  The product a successful refresh call resolves to has the         *)
(* affiliateIds and the originalUrl of the product the refresh started     *)
(* from, and so has every position of the collection refresh-all writes.   *)
(***************************************************************************)
C16_RefreshKeepsIdentity ==
    [][/\ \A i \in pendingCalls, answer \in GoodAnswers :
             updateProductDataSettled(i, answer) =>
                 /\ Refreshed(i).affiliateIds = refreshCall[1].products[i].affiliateIds
                 /\ Refreshed(i).originalUrl = refreshCall[1].products[i].originalUrl
       /\ refreshCall # <<>> /\ refreshCall' = <<>> =>
             \A j \in 1..Len(products') :
                 /\ products'[j].affiliateIds = refreshCall[1].products[j].affiliateIds
                 /\ products'[j].originalUrl = refreshCall[1].products[j].originalUrl]_vars

\* the second loaded product was refreshed: its name and its Mercado Livre URL
\* changed, its affiliateIds and originalUrl are the loaded ones
C16_Witness ==
    /\ refreshCall = <<>> /\ ~isUpdatingAll
    /\ Len(products) = 2
    /\ products[2] # Hole
    /\ products[2].productName = "Nome nao encontrado"
    /\ products[2].stores[2].url = NAUrl
    /\ products[2].affiliateIds = LoadedB.affiliateIds
    /\ products[2].originalUrl = LoadedB.originalUrl

(***************************************************************************)
(* C17.  Refresh and edit change a product in place.  The collection       *)
(* refresh-all writes is as long as the current one and holds at each      *)
(* position the product of the originalUrl the refresh found there; the    *)
(* collection an edit save writes is as long as the current one and holds  *)
(* at every position but the edited one what the current collection holds  *)
(* there.  handleSaveEdit copies the products of the render in which Save  *)
(* was clicked and assigns at the index taken when the modal was opened,   *)
(* so products added or deleted since are lost or come back.               *)
(***************************************************************************)
C17_InPlace ==
    [][/\ refreshCall # <<>> /\ refreshCall' = <<>> =>
             /\ Len(products') = Len(products)
             /\ \A j \in 1..Len(products') :
                   products'[j].originalUrl = refreshCall[1].products[j].originalUrl
       /\ \A answer \in GoodAnswers :
             handleSaveEditSettled(answer) =>
                 /\ Len(products') = Len(products)
                 /\ \A j \in 1..Len(products) :
                       j # editCall[1].index => products'[j] = products[j]
       /\ handleSaveEditSameUrl =>
             /\ Len(products') = Len(products)
             /\ \A j \in 1..Len(products) :
                   j # editingState[1].index => products'[j] = products[j]]_vars

C19_ViewLeavesCollection ==
    /\ [](filter = "all" /\ sort = "default" => displayedProducts = products)
    /\ [][filter' # filter \/ sort' # sort => products' = products]_vars

\* under 'priceAsc' the view shows the second product first, and the collection
\* still holds the products in the order they were added
C19_Witness ==
    /\ sort = "priceAsc" /\ filter = "all"
    /\ Len(products) = 2
    /\ products[1].originalUrl = SortUrls[1] /\ products[2].originalUrl = SortUrls[2]
    /\ displayedProducts = <<products[2], products[1]>>

\* every store of p has an unavailable price; some store of p has a price
AllUnavailable(p) == \A s \in Range(p.stores) : Unavailable(s.currentPrice)
HasAvailable(p) == \E s \in Range(p.stores) : Cents(s.currentPrice) >= 0

(***************************************************************************)
(* C20.  Under 'priceAsc' no product whose stores all have an unavailable  *)
(* price ('N/A', null) is shown before a product that has an available     *)
(* price, and a product whose stores are all unavailable has no best       *)
(* offer.  getBestPrice is NaN as soon as one store's price text is no     *)
(* price, and the comparator then returns NaN, which sort reads as equal.  *)
(***************************************************************************)
C20_UnavailableLast ==
    /\ sort = "priceAsc" =>
          \A i, j \in 1..Len(displayedProducts) :
              i < j => ~(AllUnavailable(displayedProducts[i]) /\ HasAvailable(displayedProducts[j]))
    /\ \A p \in AllProducts : AllUnavailable(p) => bestOffer(p) = <<>>

(***************************************************************************)
(* C21.  A store's price-change indicator is shown only when the history   *)
(* has at least two entries, the last entry is no older than 24 hours and  *)
(* the last and the second-to-last price are both prices; its amount is    *)
(* then the last price minus the previous one.  A price text that is no    *)
(* number parses to NaN, which is neither Infinity nor equal to anything,  *)
(* so the indicator is shown with the amount NaN.                          *)
(***************************************************************************)
C21_IndicatorOnlyWhenFinite ==
    \A s \in AllStores :
        LET h == s.priceHistory
            indicator == PriceChangeIndicator(h)
        IN  indicator # <<>> =>
                /\ Len(h) >= 2
                /\ Last(h).date >= now - TwentyFourHours
                /\ Cents(Last(h).price) >= 0 /\ Cents(SecondLast(h).price) >= 0
                /\ NumEq(indicator[1], Num(Cents(Last(h).price) - Cents(SecondLast(h).price), -2))

\* the identifier the link of store `name` of product p carries: the product's
\* own when that is non-empty, else the global one
ClaimedId(p, name) ==
    LET own == IF name = "Amazon" THEN p.affiliateIds.amazon ELSE p.affiliateIds.mercadoLivre
        global == IF name = "Amazon" THEN globalAffiliateIds.amazon
                  ELSE globalAffiliateIds.mercadoLivre
    IN  IF own # Null /\ own # "" THEN own ELSE global

ParamKey(name) == IF name = "Amazon" THEN "tag" ELSE "afid"

(***************************************************************************)
(* C24.  The affiliate link of a store is the store's URL itself when the  *)
(* identifier (the product's own, else the global one) is absent or empty, *)
(* when the URL is missing, empty or 'N/A', or when the URL does not       *)
(* parse; otherwise it is the URL with its other query parameters and      *)
(* exactly one 'tag' (Amazon) or 'afid' (Mercado Livre) parameter, whose   *)
(* value is the identifier.                                                *)
(***************************************************************************)
C24_AffiliateLink ==
    \A p \in AllProducts : \A s \in Range(p.stores) :
        LET out == constructAffiliateUrl(s.url, s.name, p.affiliateIds)
            id == ClaimedId(p, s.name)
            u == parseUrl(s.url)
        IN  IF id \in {Null, ""} \/ s.url \in {Null, "", NAUrl} \/ u = <<>> THEN out = s.url
            ELSE LET others == SelectSeq(u[1].params, LAMBDA pair : pair[1] # ParamKey(s.name))
                 IN  \E n \in 0..Len(others) :
                        out = urlToString([base |-> u[1].base,
                                           params |-> SubSeq(others, 1, n)
                                                      \o << <<ParamKey(s.name), id>> >>
                                                      \o SubSeq(others, n + 1, Len(others))])

\* the product got its own Amazon id in the edit modal; the link of a URL that
\* had two 'tag' parameters carries that id once
C24_Witness ==
    /\ Len(products) = 1 /\ editingState = <<>>
    /\ products[1].affiliateIds.amazon = "other-20"
    /\ products[1].stores[1].url = "https://amazon/x?k=v&tag=old&tag=older"
    /\ constructAffiliateUrl(products[1].stores[1].url, "Amazon", products[1].affiliateIds)
           = "https://amazon/x?k=v&tag=other-20"

(***************************************************************************)
(* C30.  The price a product is sorted by is the price of the offer its    *)
(* card shows as best: getBestPrice is the parsed current price of the     *)
(* store bestOffer returns, and it is Infinity exactly when bestOffer is   *)
(* null.  bestOffer leaves out a store whose URL is missing or 'N/A';      *)
(* getBestPrice looks at the prices alone.                                 *)
(***************************************************************************)
C30_SortPriceIsBestOffer ==
    \A p \in AllProducts :
        LET best == bestOffer(p)
            price == getBestPrice(p)
        IN  IF best = <<>> THEN price = Infinity
            ELSE price # Infinity /\ NumEq(price, parsePrice(best[1].currentPrice))

\* the step is a delete, a successful add, an edit save
DeleteStep == \E k \in DOMAIN displayedProducts : handleDeleteProduct(k)
AddStep == \E answer \in GoodAnswers : handleAddProductSettled(answer)
EditSaveStep == handleSaveEditSameUrl \/ \E answer \in GoodAnswers : handleSaveEditSettled(answer)

(***************************************************************************)
(* C25.  No completed change of the collection is undone by another        *)
(* operation's write: the collection gets shorter only by a delete (an     *)
(* added product stays), longer only by a successful add (a deleted        *)
(* product stays deleted), and the originalUrl and affiliateIds at a       *)
(* position change only by an edit save or a delete (an edit stays).       *)
(* handleSaveEdit and handleUpdateAllProducts write an array built from    *)
(* the products of the render in which they were clicked.                  *)
(***************************************************************************)
C25_NoLostMutation ==
    [][/\ Len(products') < Len(products) => DeleteStep
       /\ Len(products') > Len(products) => AddStep
       /\ \A j \in 1..Len(products) :
             /\ j <= Len(products') /\ products[j] # Hole /\ products'[j] # Hole
             /\ \/ products'[j].originalUrl # products[j].originalUrl
                \/ products'[j].affiliateIds # products[j].affiliateIds
             => DeleteStep \/ EditSaveStep]_vars

\* the operations that have resolver calls outstanding
Outstanding ==
    {op \in {"add", "refresh", "edit"} :
        \/ op = "add" /\ addCall # <<>>
        \/ op = "refresh" /\ refreshCall # <<>>
        \/ op = "edit" /\ editCall # <<>>}

OpenEditStep == \E k \in DOMAIN displayedProducts : openEdit(k)

(***************************************************************************)
(* C26.  At most one of add, refresh-all and URL-changing edit save has    *)
(* resolver calls outstanding, and no delete and no opening of the edit    *)
(* modal happens while one has.  The Save button of the modal is disabled  *)
(* by isSavingEdit alone, and the add button is not disabled by an open    *)
(* modal, so a modal opened before an add or a refresh-all starts can be   *)
(* saved while that operation's calls are outstanding.                     *)
(***************************************************************************)
C26_MutualExclusion ==
    /\ [](Cardinality(Outstanding) <= 1)
    /\ [][DeleteStep \/ OpenEditStep => Outstanding = {}]_vars

(***************************************************************************)
(* C27.  The index handed to a card is the position of the card's own      *)
(* product in the collection: the product at that index is the card's      *)
(* product, and where the view is the collection itself (filter 'all',     *)
(* sort 'default') the k-th card gets index k, so that edit and delete act *)
(* on the product of the card that was clicked.  The index is              *)
(* products.findIndex by originalUrl: the first product with that URL.     *)
(***************************************************************************)
C27_CardActsOnOwnProduct ==
    ~crashed =>
        \A k \in DOMAIN displayedProducts :
            LET index == findIndex(products, displayedProducts[k].originalUrl)
            IN  /\ products[index] = displayedProducts[k]
                /\ filter = "all" /\ sort = "default" => index = k

(***************************************************************************)
(* C29.  Saving an edit whose URL is the product's originalUrl issues no   *)
(* resolver call and changes the affiliateIds of the product at the edited *)
(* position and nothing else: the collection is as long as before, the     *)
(* product there keeps its name, image, originalUrl and stores, and every  *)
(* other product is the same.  The save writes editingState.product, the   *)
(* product as it was when the modal was opened.                            *)
(***************************************************************************)
C29_SameUrlSave ==
    [][handleSaveEditSameUrl =>
          /\ calls' = calls /\ editCall' = <<>>
          /\ Len(products') = Len(products)
          /\ \A j \in 1..Len(products) :
                IF j = editingState[1].index
                THEN [products'[j] EXCEPT !.affiliateIds = products[j].affiliateIds] = products[j]
                ELSE products'[j] = products[j]]_vars

\* the current price a saved store carries: `price` in the old format
SavedPrice(s) == IF s.hasPrice THEN s.price ELSE s.currentPrice

(***************************************************************************)
(* C22.  Loading gives every store of every saved product a history: a     *)
(* store saved with a history keeps it; a store saved without one gets one *)
(* entry {date: now, price: its current price} when it has a current       *)
(* price, and the empty history when it has none; a store of the old       *)
(* format (field `price`) gets that price as its currentPrice.  In the     *)
(* old-format branch the entry is made of s.price whatever it is, null     *)
(* included.                                                               *)
(***************************************************************************)
C22_Migration ==
    [][lifecycle = "unmounted" /\ lifecycle' = "mounted" /\ stored.kind = "json" =>
          /\ Len(products') = Len(stored.value)
          /\ \A i \in 1..Len(stored.value) :
                /\ Len(products'[i].stores) = Len(stored.value[i].stores)
                /\ \A k \in 1..Len(stored.value[i].stores) :
                      LET s == stored.value[i].stores[k]
                          t == products'[i].stores[k]
                      IN  /\ t.priceHistory =
                                IF s.priceHistory # <<>> THEN s.priceHistory[1]
                                ELSE IF SavedPrice(s) \notin {NullChars, <<>>}
                                THEN <<PriceHistoryEntry(now, SavedPrice(s))>>
                                ELSE <<>>
                          /\ s.hasPrice => t.currentPrice = s.price]_vars

(***************************************************************************)
(* C23.  A failure of localStorage is never shown and never stops the      *)
(* application: no error leaves the component and the error message stays  *)
(* unset; when the stored collection cannot be read or parsed the App      *)
(* starts with the empty collection, when the stored theme cannot be read  *)
(* it starts with the system's theme, and when a write fails the state in  *)
(* memory is kept.  Only the two calls for 'priceTrackerProducts' are      *)
(* inside try / catch; those for 'theme' are not.                          *)
(***************************************************************************)
C23_StorageFailuresContained ==
    /\ [](lifecycle # "raised" /\ error = <<>>)
    /\ [][\A prefersDark \in BOOLEAN :
             mount(prefersDark) =>
                 /\ ~storage.reads \/ stored.kind # "json" => products' = <<>>
                 /\ ~storage.reads => theme' = IF prefersDark THEN "dark" ELSE "light"]_vars
    /\ [][lifecycle = "mounted" /\ ~storage.writes /\ storage' = storage =>
             /\ lifecycle' = "mounted"
             /\ stored' = stored /\ storedTheme' = storedTheme]_vars

\* no busy flag is set: the add, refresh-all, edit and delete controls depend
\* on nothing else but the typed URL and the number of products
Idle == ~isLoading /\ ~isUpdatingAll /\ ~isSavingEdit /\ updatingProductIndex = NoIndex

====
